---------------------------- MODULE Spec2Model ----------------------------
(***************************************************************************)
(* Model of the blackjack-network repository: the wire codec               *)
(* (protocol.py), the server's discovery loop and match state machine      *)
(* (server.py) and the client's discovery loop and match loop (client.py). *)
(*                                                                         *)
(* Conventions.                                                            *)
(*  - A byte string is a sequence of integers 0..255.  A Python str is a   *)
(*    sequence of code points.                                             *)
(*  - A 32-bit unsigned value is a pair <<high 16 bits, low 16 bits>>      *)
(*    (0xabcddcba does not fit the checker's integers).                     *)
(*  - A raised exception is one of the one-element sequences ValueError,   *)
(*    StructError, ...; no byte string and no decoded tuple has that       *)
(*    shape.                                                               *)
(*  - A card is a pair <<rank, suit>>.                                     *)
(***************************************************************************)
EXTENDS Integers, Sequences, FiniteSets, TLC

(***************************************************************************)
(* protocol.py: constants                                                  *)
(***************************************************************************)
MAGIC_COOKIE == <<43981, 56506>>          \* 0xabcd, 0xdcba

MTYPE_OFFER == 2
MTYPE_REQUEST == 3
MTYPE_PAYLOAD == 4

GAME_RESULT_NOTOVER == 0
GAME_RESULT_TIE == 1
GAME_RESULT_LOSS == 2
GAME_RESULT_WIN == 3

NAME_LEN == 32

OFFER_SIZE == 4 + 1 + 2 + NAME_LEN
REQUEST_SIZE == 4 + 1 + 1 + NAME_LEN
CLIENT_PAYLOAD_SIZE == 4 + 1 + 5
SERVER_PAYLOAD_SIZE == 4 + 1 + 1 + 2 + 1

ValueError == <<-1>>
StructError == <<-2>>
UnicodeError == <<-3>>
ConnectionError == <<-4>>
IndexError == <<-5>>
BrokenPipeError == <<-6>>
ZeroDivisionError == <<-7>>
UnboundLocalError == <<-8>>
NoException == <<>>
Exceptions ==
    {ValueError, StructError, UnicodeError, ConnectionError, IndexError,
     BrokenPipeError, ZeroDivisionError, UnboundLocalError}

IsException(x) == x \in Exceptions

(***************************************************************************)
(* struct.pack / struct.unpack field codecs, network byte order            *)
(***************************************************************************)
PackB(n) == <<n>>
PackH(n) == <<n \div 256, n % 256>>
PackI(v) == PackH(v[1]) \o PackH(v[2])

UnpackB(b) == b[1]
UnpackH(b) == b[1] * 256 + b[2]
UnpackI(b) == <<UnpackH(SubSeq(b, 1, 2)), UnpackH(SubSeq(b, 3, 4))>>

InRangeB(n) == 0 <= n /\ n <= 255
InRangeH(n) == 0 <= n /\ n <= 65535

(***************************************************************************)
(* str.encode / bytes.decode, for code points below 0x800                  *)
(***************************************************************************)
RECURSIVE Utf8Encode(_)
Utf8Encode(s) ==
    IF s = <<>> THEN <<>>
    ELSE LET cp == Head(s)
         IN (IF cp < 128 THEN <<cp>>
             ELSE <<192 + (cp \div 64), 128 + (cp % 64)>>) \o Utf8Encode(Tail(s))

IsCont(b) == 128 <= b /\ b <= 191

RECURSIVE Utf8Decode(_)
Utf8Decode(b) ==
    IF b = <<>> THEN <<>>
    ELSE IF b[1] < 128 THEN
        LET rest == Utf8Decode(Tail(b))
        IN IF IsException(rest) THEN rest ELSE <<b[1]>> \o rest
    ELSE IF 194 <= b[1] /\ b[1] <= 223 /\ Len(b) >= 2 /\ IsCont(b[2]) THEN
        LET rest == Utf8Decode(SubSeq(b, 3, Len(b)))
        IN IF IsException(rest) THEN rest
           ELSE <<(b[1] - 192) * 64 + (b[2] - 128)>> \o rest
    ELSE UnicodeError

AsciiEncode(s) == s

AsciiDecode(b) ==
    IF \E i \in 1..Len(b) : b[i] >= 128 THEN UnicodeError ELSE b

Zeros(n) == [i \in 1..n |-> 0]

\* bytes[:n]
Truncate(b, n) == SubSeq(b, 1, IF Len(b) < n THEN Len(b) ELSE n)

\* bytes.split(b"\x00")[0]
BeforeFirstZero(b) ==
    IF \E i \in 1..Len(b) : b[i] = 0
    THEN SubSeq(b, 1, (CHOOSE i \in 1..Len(b) :
                          b[i] = 0 /\ \A j \in 1..(i - 1) : b[j] # 0) - 1)
    ELSE b

(***************************************************************************)
(* protocol.py: pack_name, unpack_name                                     *)
(***************************************************************************)
pack_name(name) ==
    LET bytes_name == Truncate(Utf8Encode(name), NAME_LEN)
    IN bytes_name \o Zeros(NAME_LEN - Len(bytes_name))

unpack_name_keeping_padding(bytes_name) == Utf8Decode(bytes_name)
unpack_name(bytes_name) == Utf8Decode(BeforeFirstZero(bytes_name))

(***************************************************************************)
(* protocol.py: the four message kinds                                     *)
(***************************************************************************)
pack_offer(tcp_port, server_name) ==
    IF ~InRangeH(tcp_port) THEN StructError
    ELSE PackI(MAGIC_COOKIE) \o PackB(MTYPE_OFFER) \o PackH(tcp_port)
            \o pack_name(server_name)

unpack_offer(data) ==
    IF Len(data) # OFFER_SIZE THEN StructError
    ELSE LET name == unpack_name(SubSeq(data, 8, 7 + NAME_LEN))
         IN IF IsException(name) THEN name
            ELSE <<UnpackI(SubSeq(data, 1, 4)), UnpackB(SubSeq(data, 5, 5)),
                   UnpackH(SubSeq(data, 6, 7)), name>>

pack_request(rounds, client_name) ==
    IF ~(0 <= rounds /\ rounds <= 255) THEN ValueError
    ELSE PackI(MAGIC_COOKIE) \o PackB(MTYPE_REQUEST) \o PackB(rounds)
            \o pack_name(client_name)

unpack_request(data) ==
    IF Len(data) # REQUEST_SIZE THEN StructError
    ELSE LET name == unpack_name(SubSeq(data, 7, 6 + NAME_LEN))
         IN IF IsException(name) THEN name
            ELSE <<UnpackI(SubSeq(data, 1, 4)), UnpackB(SubSeq(data, 5, 5)),
                   UnpackB(SubSeq(data, 6, 6)), name>>

Hittt == <<72, 105, 116, 116, 116>>
Stand == <<83, 116, 97, 110, 100>>

pack_client_payload_any_token(decision) ==
    PackI(MAGIC_COOKIE) \o PackB(MTYPE_PAYLOAD) \o AsciiEncode(decision)

pack_client_payload(decision) ==
    IF decision \notin {Hittt, Stand} THEN ValueError
    ELSE PackI(MAGIC_COOKIE) \o PackB(MTYPE_PAYLOAD) \o AsciiEncode(decision)

unpack_client_payload(data) ==
    IF Len(data) # CLIENT_PAYLOAD_SIZE THEN StructError
    ELSE LET decision == AsciiDecode(SubSeq(data, 6, 10))
         IN IF IsException(decision) THEN decision
            ELSE <<UnpackI(SubSeq(data, 1, 4)), UnpackB(SubSeq(data, 5, 5)),
                   decision>>

pack_server_payload(game_result, card_rank, card_suit) ==
    IF ~(InRangeB(game_result) /\ InRangeH(card_rank) /\ InRangeB(card_suit))
    THEN StructError
    ELSE PackI(MAGIC_COOKIE) \o PackB(MTYPE_PAYLOAD) \o PackB(game_result)
            \o PackH(card_rank) \o PackB(card_suit)

unpack_server_payload(data) ==
    IF Len(data) # SERVER_PAYLOAD_SIZE THEN StructError
    ELSE <<UnpackI(SubSeq(data, 1, 4)), UnpackB(SubSeq(data, 5, 5)),
           UnpackB(SubSeq(data, 6, 6)), UnpackH(SubSeq(data, 7, 8)),
           UnpackB(SubSeq(data, 9, 9))>>

(***************************************************************************)
(* Bounds of the model                                                     *)
(***************************************************************************)
\* conforming clients (processes running client.py)
NumClients == 1
\* other TCP peers, which may send anything and close at any time
NumRogues == 1
\* largest round count a peer asks for
MaxRounds == 2
\* how many cards of TopOrder the enumerated shuffles put on top of the deck
TopCards == 5
\* datagrams a client's discovery socket buffers
MaxUdpQueue == 1
\* messages a rogue peer sends on one connection
MaxRogueSends == 2

Clients == 1..NumClients
Rogues == (NumClients + 1)..(NumClients + NumRogues)
Peers == Clients \cup Rogues

(***************************************************************************)
(* server.py: constants                                                    *)
(***************************************************************************)
SERVER_PORT == 2005
SERVER_NAME == <<66, 111, 115, 115, 105>>                     \* "Bossi"
\* client_sock = None
None == 0
NoCard == <<>>

(***************************************************************************)
(* server.py: deck and hand engine                                         *)
(***************************************************************************)
create_deck_of_four == [i \in 1..4 |-> <<i + 9, 0>>]

create_deck ==
    [i \in 1..(4 * 13) |-> <<((i - 1) % 13) + 1, (i - 1) \div 13>>]

\* random.shuffle fixes the order of the list and the code sees that order
\* only through deck.pop(); the model decides it pop by pop: deck holds the
\* cards still in the list, and a pop takes the one the shuffle put last.
\* The shuffles enumerated put the cards of the set top (TopCards
\* consecutive cards of TopOrder, the same set for the rounds of one
\* behaviour) on top of the deck, in any order, over the other cards in
\* create_deck's order.
TopOrder ==
    << <<10, 0>>, <<9, 1>>, <<7, 2>>, <<6, 3>>, <<5, 0>>, <<1, 0>>, <<1, 1>>,
       <<12, 2>>, <<8, 1>>, <<2, 3>>, <<3, 0>>, <<4, 2>> >>

TopWindow(first, n) ==
    {TopOrder[i] : i \in {j \in first..(first + n - 1) : j <= Len(TopOrder)}}

\* the sets top is drawn from
Tops == {TopWindow(1, TopCards), TopWindow(4, TopCards)}
FewTops == {TopWindow(1, TopCards - 2)}

RemoveAtKeepingCard(d, i) == d

RemoveAt(d, i) == SubSeq(d, 1, i - 1) \o SubSeq(d, i + 1, Len(d))

rank_value_low_ace(rank) == IF rank >= 11 THEN 10 ELSE rank

rank_value(rank) ==
    IF rank >= 11 THEN 10
    ELSE IF rank = 1 THEN 11
    ELSE rank

RECURSIVE hand_total(_)
hand_total(hand) ==
    IF hand = <<>> THEN 0
    ELSE rank_value(Head(hand)[1]) + hand_total(Tail(hand))

who_won_ignoring_dealer_bust(p_hand, d_hand, p_busted, d_busted) ==
    IF p_busted THEN GAME_RESULT_LOSS
    ELSE LET player_score == hand_total(p_hand)
             dealer_score == hand_total(d_hand)
         IN IF player_score > dealer_score THEN GAME_RESULT_WIN
            ELSE IF player_score < dealer_score THEN GAME_RESULT_LOSS
            ELSE GAME_RESULT_TIE

who_won_for_dealer(p_hand, d_hand, p_busted, d_busted) ==
    IF p_busted THEN GAME_RESULT_LOSS
    ELSE IF d_busted THEN GAME_RESULT_WIN
    ELSE LET player_score == hand_total(p_hand)
             dealer_score == hand_total(d_hand)
         IN IF player_score < dealer_score THEN GAME_RESULT_WIN
            ELSE IF player_score > dealer_score THEN GAME_RESULT_LOSS
            ELSE GAME_RESULT_TIE

who_won(p_hand, d_hand, p_busted, d_busted) ==
    IF p_busted THEN GAME_RESULT_LOSS
    ELSE IF d_busted THEN GAME_RESULT_WIN
    ELSE LET player_score == hand_total(p_hand)
             dealer_score == hand_total(d_hand)
         IN IF player_score > dealer_score THEN GAME_RESULT_WIN
            ELSE IF player_score < dealer_score THEN GAME_RESULT_LOSS
            ELSE GAME_RESULT_TIE

CardPayload(card) == pack_server_payload(GAME_RESULT_NOTOVER, card[1], card[2])

(***************************************************************************)
(* State                                                                   *)
(***************************************************************************)
VARIABLES
    \* server: position in run_single_threaded_server / run_match_for_client
    spc,
    client_sock,      \* the accepted peer, or None
    rounds,           \* run_match_for_client's rounds
    r,                \* rounds finished in this match
    deck, player_hand, dealer_hand, dealer_hidden,
    player_busted, dealer_busted,
    s_exc,            \* the exception that ended the match, or NoException
    match,            \* "idle", "running", "complete", "dropped" or "aborted"
    open_socks,       \* the accepted sockets the server has not closed
    \* network
    tcp,              \* per peer, its TCP connection to the server
    udp,              \* per client, the datagrams its discovery socket holds
    \* clients (client.py main) and rogue peers
    cl,
    rg,
    \* history
    sent,             \* Payloads the server sent in the current round
    decisions,        \* decision tokens the server read in the current round
    results,          \* result Payloads the server sent on this connection
    adverts,          \* Advertisements sent since the last accept wait began
    hands,            \* per client, the player and dealer hands of the rounds
                      \* whose result was sent to it and is not read yet
    \* the random source: the cards its shuffles put on top of the deck
    top,
    \* codec inputs and outputs of SpecCodec
    codec

serverVars ==
    <<spc, client_sock, rounds, r, deck, player_hand, dealer_hand,
      dealer_hidden, player_busted, dealer_busted, s_exc, match, open_socks>>
roundVars ==
    <<deck, player_hand, dealer_hand, dealer_hidden, player_busted,
      dealer_busted>>
histVars == <<sent, decisions, results, adverts>>
vars == <<serverVars, tcp, udp, cl, rg, histVars, hands, top, codec>>

\* the positions of the list a deck.pop() may find last
PopChoices(d) ==
    IF \E i \in 1..Len(d) : d[i] \in top
    THEN {i \in 1..Len(d) : d[i] \in top}
    ELSE {Len(d)}

(***************************************************************************)
(* TCP connections                                                         *)
(***************************************************************************)
\* state: "none" (no connection), "backlog" (connected, not yet accepted),
\* "open" (accepted).  c2s, s2c: the bytes sent and not yet received.
\* cclosed / sclosed: the peer / the server has closed its socket.
\* A peer opens a new connection only once the server has closed the one
\* before.
NoConn ==
    [state |-> "none", c2s |-> <<>>, s2c |-> <<>>,
     cclosed |-> FALSE, sclosed |-> FALSE]

NewConn == [NoConn EXCEPT !.state = "backlog"]

\* closing discards what the closing side has not read
PeerClose(c) ==
    IF c.sclosed \/ c.state = "none" THEN NoConn ELSE [c EXCEPT !.cclosed = TRUE, !.s2c = <<>>]

ServerClose(c) ==
    IF c.cclosed THEN NoConn ELSE [c EXCEPT !.sclosed = TRUE, !.c2s = <<>>]

Concat(msgs) ==
    LET RECURSIVE Cat(_)
        Cat(m) == IF m = <<>> THEN <<>> ELSE Head(m) \o Cat(Tail(m))
    IN Cat(msgs)

(***************************************************************************)
(* server.py: recv_exact, on the server's side of a connection             *)
(***************************************************************************)
\* recv_exact(sock, n) returns once n bytes have arrived, raises once the
\* peer has closed with fewer than n bytes left, and blocks otherwise.
CanRecv(stream, n) == Len(stream) >= n
RecvFails(stream, closed, n) == Len(stream) < n /\ closed
RecvReady(stream, closed, n) == CanRecv(stream, n) \/ RecvFails(stream, closed, n)
Taken(stream, n) == SubSeq(stream, 1, n)
Left(stream, n) == SubSeq(stream, n + 1, Len(stream))

(***************************************************************************)
(* server.py: run_single_threaded_server, the discovery loop               *)
(***************************************************************************)
Datagram(data, addr) == [data |-> data, addr |-> addr]

\* lines 385-386: one Advertisement, to every discovery socket now bound
Advertise ==
    /\ spc = "advertise"
    /\ LET offer_msg == pack_offer(SERVER_PORT, SERVER_NAME)
       IN udp' = [c \in Clients |->
                    IF cl[c].pc = "listen" /\ Len(udp[c]) < MaxUdpQueue
                    THEN Append(udp[c], Datagram(offer_msg, "server"))
                    ELSE udp[c]]
    /\ adverts' = adverts + 1
    /\ spc' = "accept"
    /\ UNCHANGED <<client_sock, rounds, r, roundVars, s_exc, match,
                   open_socks, tcp, cl, rg, sent, decisions, results, hands, top, codec>>

\* line 390 returning a connection, lines 403-407
AcceptedKeepsAdvertising == "advertise"

\* lines 393, 400-410: with a connection accepted the advertising loop is
\* left and the Request is read
AcceptedTarget == "recv_request"

Accept(p) ==
    /\ spc = "accept"
    /\ tcp[p].state = "backlog"
    /\ client_sock' = p
    /\ open_socks' = open_socks \cup {p}
    /\ tcp' = [tcp EXCEPT ![p].state = "open"]
    /\ spc' = AcceptedTarget
    /\ s_exc' = NoException
    /\ match' = "idle"
    /\ sent' = <<>>
    /\ decisions' = <<>>
    /\ results' = 0
    /\ adverts' = 0
    /\ UNCHANGED <<rounds, r, roundVars, udp, cl, rg, hands, top, codec>>

\* line 390 raising socket.timeout after one second with no connection,
\* lines 395-397
TimeoutEndsLoop == "crashed"

\* lines 395-397: continue, the next pass of the advertising loop
TimeoutTarget == "advertise"

AcceptTimeout ==
    /\ spc = "accept"
    /\ \A p \in Peers : tcp[p].state # "backlog"
    /\ spc' = TimeoutTarget
    /\ adverts' = 0
    /\ UNCHANGED <<client_sock, rounds, r, roundVars, s_exc, match,
                   open_socks, tcp, udp, cl, rg, sent, decisions, results,
                   hands, top, codec>>

\* where an exception raised inside the try of lines 408-418 continues:
\* the except clause of lines 419-420 catches it and falls into finally
ExceptionUncaught == "crashed"
GameExceptionTarget == "finally"

\* an exception e raised by the match code, the connection left as conn
RaiseInGame(e, conn) ==
    /\ spc' = GameExceptionTarget
    /\ s_exc' = e
    /\ match' = "aborted"
    /\ tcp' = [tcp EXCEPT ![client_sock] = conn]

\* what a closed peer's connection keeps of a send
Deliver(conn, msgs) ==
    IF conn.cclosed THEN conn ELSE [conn EXCEPT !.s2c = @ \o Concat(msgs)]

\* the numbers of messages of msgs a sequence of sendall calls may get out:
\* all of them, or fewer (the failing call raises) once the peer has closed
SendCounts(conn, msgs) ==
    IF conn.cclosed THEN 0..Len(msgs) ELSE {Len(msgs)}

RequestCookieUnchecked(cookie) == TRUE

\* line 414: the check of the Request's magic marker
RequestCookieOk(cookie) == cookie = MAGIC_COOKIE

\* lines 410-418: the Request
RecvRequest ==
    /\ spc = "recv_request"
    /\ LET conn == tcp[client_sock]
       IN /\ RecvReady(conn.c2s, conn.cclosed, REQUEST_SIZE)
          /\ IF RecvFails(conn.c2s, conn.cclosed, REQUEST_SIZE)
             THEN /\ RaiseInGame(ConnectionError, [conn EXCEPT !.c2s = <<>>])
                  /\ UNCHANGED <<rounds, r>>
             ELSE LET req == unpack_request(Taken(conn.c2s, REQUEST_SIZE))
                      rest == [conn EXCEPT !.c2s = Left(@, REQUEST_SIZE)]
                  IN IF IsException(req)
                     THEN /\ RaiseInGame(req, rest)
                          /\ UNCHANGED <<rounds, r>>
                     ELSE IF ~RequestCookieOk(req[1])
                     THEN /\ spc' = "finally"
                          /\ match' = "dropped"
                          /\ rounds' = req[3]
                          /\ tcp' = [tcp EXCEPT ![client_sock] = rest]
                          /\ UNCHANGED <<r, s_exc>>
                     ELSE /\ spc' = "round"
                          /\ match' = "running"
                          /\ rounds' = req[3]
                          /\ r' = 0
                          /\ tcp' = [tcp EXCEPT ![client_sock] = rest]
                          /\ UNCHANGED s_exc
    /\ UNCHANGED <<client_sock, roundVars, open_socks, udp, cl, rg, histVars,
                   hands, top, codec>>

\* line 424: the server's open sockets once it has closed sock
NotClosed(socks, sock) == socks
Closed(socks, sock) == socks \ {sock}

\* lines 422-424: the connection is closed.  The locals of the match that
\* has ended (and the history kept of it) are dropped here.
Finally ==
    /\ spc = "finally"
    /\ tcp' = [tcp EXCEPT ![client_sock] = ServerClose(@)]
    /\ open_socks' = Closed(open_socks, client_sock)
    /\ spc' = "sleep"
    /\ rounds' = 0
    /\ r' = 0
    /\ deck' = <<>>
    /\ player_hand' = <<>>
    /\ dealer_hand' = <<>>
    /\ dealer_hidden' = NoCard
    /\ player_busted' = FALSE
    /\ dealer_busted' = FALSE
    /\ sent' = <<>>
    /\ decisions' = <<>>
    /\ results' = 0
    /\ UNCHANGED <<client_sock, s_exc, match, udp, cl, rg, adverts, hands, top, codec>>

\* line 428, then lines 374-376
Sleep ==
    /\ spc = "sleep"
    /\ spc' = "advertise"
    /\ client_sock' = None
    /\ s_exc' = NoException
    /\ match' = "idle"
    /\ UNCHANGED <<rounds, r, roundVars, open_socks, tcp, udp, cl, rg,
                   histVars, hands, top, codec>>

(***************************************************************************)
(* server.py: run_match_for_client and the functions it calls              *)
(***************************************************************************)
\* line 321: for r in range(rounds)
RoundsLeftOffByOne(done, n) == done <= n
RoundsLeft(done, n) == done < n

\* lines 130-151: the Payloads initial_deal sends for the player's cards c1,
\* c2, the dealer's first card c3 and the hidden card c4
InitialDealShowsHidden(c1, c2, c3, c4) ==
    <<CardPayload(c1), CardPayload(c2), CardPayload(c3), CardPayload(c4)>>
InitialDealPayloads(c1, c2, c3, c4) ==
    <<CardPayload(c1), CardPayload(c2), CardPayload(c3)>>

\* line 332: the check made before the player's turn
PreCheckNever(hand) == FALSE
PreCheckBusted(hand) == hand_total(hand) > 21

\* line 302: the Payload end_round sends
EndRoundPayloadWithCard(game_result) == pack_server_payload(game_result, 1, 0)
EndRoundPayload(game_result) == pack_server_payload(game_result, 0, 0)

\* lines 321-334: the loop head, a fresh deck, initial_deal and the check of
\* the player's first two cards
Round ==
    /\ spc = "round"
    /\ IF ~RoundsLeft(r, rounds)
       THEN /\ spc' = "finally"
            /\ match' = "complete"
            /\ UNCHANGED <<roundVars, s_exc, tcp, sent, decisions>>
       ELSE \E i1 \in PopChoices(create_deck) :
            LET d1 == RemoveAt(create_deck, i1)
            IN \E i2 \in PopChoices(d1) :
               LET d2 == RemoveAt(d1, i2)
               IN \E i3 \in PopChoices(d2) :
                  LET d3 == RemoveAt(d2, i3)
                  IN \E i4 \in PopChoices(d3) :
                     LET hand == <<create_deck[i1], d1[i2]>>
                         msgs == InitialDealPayloads(create_deck[i1], d1[i2],
                                                     d2[i3], d3[i4])
                         conn == tcp[client_sock]
                     IN \E k \in SendCounts(conn, msgs) :
                        /\ decisions' = <<>>
                        /\ sent' = SubSeq(msgs, 1, k)
                        /\ IF k < Len(msgs)
                           THEN /\ RaiseInGame(BrokenPipeError, conn)
                                /\ UNCHANGED roundVars
                           ELSE /\ tcp' = [tcp EXCEPT ![client_sock] =
                                                        Deliver(conn, msgs)]
                                /\ deck' = RemoveAt(d3, i4)
                                /\ player_hand' = hand
                                /\ dealer_hand' = <<d2[i3]>>
                                /\ dealer_hidden' = d3[i4]
                                /\ IF PreCheckBusted(hand)
                                   THEN /\ player_busted' = TRUE
                                        /\ dealer_busted' = FALSE
                                        /\ spc' = "end_round"
                                   ELSE /\ spc' = "player_turn"
                                        /\ UNCHANGED <<player_busted,
                                                       dealer_busted>>
                                /\ UNCHANGED <<s_exc, match>>
    /\ UNCHANGED <<client_sock, rounds, r, open_socks, udp, cl, rg, results,
                   adverts, hands, top, codec>>

\* lines 175-205 (player_turn), and lines 337-341 when it returns
PlayerBustedFrom21(score) == score >= 21

DecisionCookieUnchecked(cookie) == TRUE

\* line 186: the check of a decision's magic marker
DecisionCookieOk(cookie) == cookie = MAGIC_COOKIE

\* line 178: the total that ends the player's turn as busted
PlayerBusted(score) == score > 21

PlayerTurn ==
    /\ spc = "player_turn"
    /\ LET conn == tcp[client_sock]
       IN IF PlayerBusted(hand_total(player_hand))
          THEN /\ player_busted' = TRUE
               /\ dealer_busted' = FALSE
               /\ spc' = "end_round"
               /\ UNCHANGED <<deck, player_hand, s_exc, match, tcp, sent,
                              decisions>>
          ELSE /\ RecvReady(conn.c2s, conn.cclosed, CLIENT_PAYLOAD_SIZE)
               /\ IF RecvFails(conn.c2s, conn.cclosed, CLIENT_PAYLOAD_SIZE)
                  THEN /\ RaiseInGame(ConnectionError,
                                      [conn EXCEPT !.c2s = <<>>])
                       /\ UNCHANGED <<deck, player_hand, player_busted,
                                      dealer_busted, sent, decisions>>
                  ELSE LET data == Taken(conn.c2s, CLIENT_PAYLOAD_SIZE)
                           rest == [conn EXCEPT
                                      !.c2s = Left(@, CLIENT_PAYLOAD_SIZE)]
                           pl == unpack_client_payload(data)
                       IN /\ decisions' = Append(decisions, data)
                          /\ IF IsException(pl)
                             THEN /\ RaiseInGame(pl, rest)
                                  /\ UNCHANGED <<deck, player_hand,
                                                 player_busted, dealer_busted,
                                                 sent>>
                             ELSE IF ~DecisionCookieOk(pl[1])
                             THEN /\ RaiseInGame(ValueError, rest)
                                  /\ UNCHANGED <<deck, player_hand,
                                                 player_busted, dealer_busted,
                                                 sent>>
                             ELSE IF pl[3] = Hittt
                             THEN IF deck = <<>>
                                  THEN /\ RaiseInGame(IndexError, rest)
                                       /\ UNCHANGED <<deck, player_hand,
                                                      player_busted,
                                                      dealer_busted, sent>>
                                  ELSE \E i \in PopChoices(deck) :
                                       \E k \in SendCounts(rest,
                                                  <<CardPayload(deck[i])>>) :
                                       IF k = 0
                                       THEN /\ RaiseInGame(BrokenPipeError,
                                                           rest)
                                            /\ UNCHANGED <<deck, player_hand,
                                                 player_busted, dealer_busted,
                                                 sent>>
                                       ELSE /\ deck' = RemoveAt(deck, i)
                                            /\ player_hand' =
                                                 Append(player_hand, deck[i])
                                            /\ tcp' = [tcp EXCEPT
                                                 ![client_sock] = Deliver(rest,
                                                   <<CardPayload(deck[i])>>)]
                                            /\ sent' = Append(sent,
                                                   CardPayload(deck[i]))
                                            /\ UNCHANGED <<spc, s_exc, match,
                                                 player_busted, dealer_busted>>
                             ELSE IF pl[3] = Stand
                             THEN /\ player_busted' = FALSE
                                  /\ dealer_busted' = FALSE
                                  /\ spc' = "dealer_turn"
                                  /\ tcp' = [tcp EXCEPT ![client_sock] = rest]
                                  /\ UNCHANGED <<deck, player_hand, s_exc,
                                                 match, sent>>
                             ELSE /\ RaiseInGame(ValueError, rest)
                                  /\ UNCHANGED <<deck, player_hand,
                                                 player_busted, dealer_busted,
                                                 sent>>
    /\ UNCHANGED <<client_sock, rounds, r, dealer_hand, dealer_hidden,
                   open_socks, udp, cl, rg, results, adverts, hands, top, codec>>

\* lines 231-233: the hidden card is revealed
DealerReveal ==
    /\ spc = "dealer_turn"
    /\ LET conn == tcp[client_sock]
           msg == CardPayload(dealer_hidden)
       IN \E k \in SendCounts(conn, <<msg>>) :
          IF k = 0
          THEN /\ RaiseInGame(BrokenPipeError, conn)
               /\ UNCHANGED <<dealer_hand, sent>>
          ELSE /\ dealer_hand' = Append(dealer_hand, dealer_hidden)
               /\ tcp' = [tcp EXCEPT ![client_sock] = Deliver(conn, <<msg>>)]
               /\ sent' = Append(sent, msg)
               /\ spc' = "dealer_loop"
               /\ UNCHANGED <<s_exc, match>>
    /\ UNCHANGED <<client_sock, rounds, r, deck, player_hand, dealer_hidden,
                   player_busted, dealer_busted, open_socks, udp, cl, rg,
                   decisions, results, adverts, hands, top, codec>>

\* line 242: the total at which the dealer stands
DealerStandsFrom16(dealer_score) == dealer_score >= 16
DealerNeverStands(dealer_score) == FALSE
DealerStands(dealer_score) == dealer_score >= 17

\* lines 236-250: one pass of the dealer's loop
DealerLoop ==
    /\ spc = "dealer_loop"
    /\ LET conn == tcp[client_sock]
           dealer_score == hand_total(dealer_hand)
       IN IF dealer_score > 21
          THEN /\ dealer_busted' = TRUE
               /\ spc' = "end_round"
               /\ UNCHANGED <<deck, dealer_hand, s_exc, match, tcp, sent>>
          ELSE IF DealerStands(dealer_score)
          THEN /\ dealer_busted' = FALSE
               /\ spc' = "end_round"
               /\ UNCHANGED <<deck, dealer_hand, s_exc, match, tcp, sent>>
          ELSE IF deck = <<>>
          THEN /\ RaiseInGame(IndexError, conn)
               /\ UNCHANGED <<deck, dealer_hand, dealer_busted, sent>>
          ELSE \E i \in PopChoices(deck) :
               \E k \in SendCounts(conn, <<CardPayload(deck[i])>>) :
               IF k = 0
               THEN /\ RaiseInGame(BrokenPipeError, conn)
                    /\ UNCHANGED <<deck, dealer_hand, dealer_busted, sent>>
               ELSE /\ deck' = RemoveAt(deck, i)
                    /\ dealer_hand' = Append(dealer_hand, deck[i])
                    /\ tcp' = [tcp EXCEPT ![client_sock] =
                                 Deliver(conn, <<CardPayload(deck[i])>>)]
                    /\ sent' = Append(sent, CardPayload(deck[i]))
                    /\ UNCHANGED <<spc, s_exc, match, dealer_busted>>
    /\ UNCHANGED <<client_sock, rounds, r, player_hand, dealer_hidden,
                   player_busted, open_socks, udp, cl, rg, decisions, results,
                   adverts, hands, top, codec>>

\* lines 345-346: who_won and end_round, then the next pass of the for loop
EndRound ==
    /\ spc = "end_round"
    /\ LET conn == tcp[client_sock]
           result == who_won(player_hand, dealer_hand, player_busted,
                             dealer_busted)
           msg == EndRoundPayload(result)
       IN \E k \in SendCounts(conn, <<msg>>) :
          IF k = 0
          THEN /\ RaiseInGame(BrokenPipeError, conn)
               /\ UNCHANGED <<r, sent, results, hands>>
          ELSE /\ tcp' = [tcp EXCEPT ![client_sock] = Deliver(conn, <<msg>>)]
               /\ sent' = Append(sent, msg)
               /\ results' = results + 1
               /\ hands' = IF client_sock \in Clients /\ ~conn.cclosed
                            THEN [hands EXCEPT ![client_sock] =
                                    Append(@, <<player_hand, dealer_hand>>)]
                            ELSE hands
               /\ r' = r + 1
               /\ spc' = "round"
               /\ UNCHANGED <<s_exc, match>>
    /\ UNCHANGED <<client_sock, rounds, roundVars, open_socks, udp, cl, rg,
                   decisions, adverts, top, codec>>

(***************************************************************************)
(* client.py                                                               *)
(***************************************************************************)
CLIENT_NAME == <<79, 70, 82, 73, 69, 76, 79, 86>>             \* "OFRIELOV"

\* the value of rounds after lines 151-154: the integer typed, or 3 when
\* the input is no integer (3 is one of these values once MaxRounds >= 3)
RoundInputs == (0..MaxRounds) \cup {-1, 256}

\* what is typed at "Hit or Stand?", stripped and upper-cased
ChoiceInputs == {"H", "S", "X"}

client_rank_value_low_ace(rank) == IF rank >= 11 THEN 10 ELSE rank

client_rank_value(rank) ==
    IF rank >= 11 THEN 10
    ELSE IF rank = 1 THEN 11
    ELSE rank

RECURSIVE Sum(_)
Sum(xs) == IF xs = <<>> THEN 0 ELSE Head(xs) + Sum(Tail(xs))

\* client.py's hand_total takes the values, not the cards
client_hand_total(ranks) == Sum(ranks)

\* the pair <<rank text, suit text>> stands for the string f"{r} {s}"
card_to_str(rank, suit) ==
    << CASE rank = 1 -> "A"
         [] rank = 11 -> "J"
         [] rank = 12 -> "Q"
         [] rank = 13 -> "K"
         [] OTHER -> ToString(rank),
       CASE suit = 0 -> "clubs"
         [] suit = 1 -> "diamonds"
         [] suit = 2 -> "hearts"
         [] suit = 3 -> "spades"
         [] OTHER -> "?" >>

\* a client process at the top of main's while loop, nothing bound yet
ClientInit ==
    [pc |-> "start", server_ip |-> "", server_tcp_port |-> 0,
     sock |-> FALSE, connected |-> FALSE,
     rounds_bound |-> FALSE, rounds |-> 0, round_idx |-> 0, i |-> 0,
     player_cards |-> <<>>, dealer_cards |-> <<>>, player_ranks |-> <<>>,
     wins |-> 0, losses |-> 0, ties |-> 0,
     exc |-> NoException,
     nsent |-> 0,       \* history: decisions sent in the current round
     played |-> 0]      \* history: rounds finished in the current match

\* datagrams that reach a discovery socket from elsewhere on the network
BadCookieOffer ==
    PackI(<<0, 0>>) \o PackB(MTYPE_OFFER) \o PackH(SERVER_PORT)
        \o pack_name(SERVER_NAME)
WrongTypeOffer ==
    PackI(MAGIC_COOKIE) \o PackB(MTYPE_REQUEST) \o PackH(SERVER_PORT)
        \o pack_name(SERVER_NAME)
ForeignDatagrams ==
    {Datagram(<<1, 2, 3>>, "other"),
     Datagram(BadCookieOffer, "other"),
     Datagram(WrongTypeOffer, "other"),
     Datagram(pack_offer(SERVER_PORT, SERVER_NAME), "other")}

\* lines 92-100: a new discovery socket is bound
ClientStart(c) ==
    /\ cl[c].pc = "start"
    /\ cl' = [cl EXCEPT ![c].pc = "listen"]
    /\ udp' = [udp EXCEPT ![c] = <<>>]
    /\ UNCHANGED <<serverVars, tcp, rg, histVars, hands, top, codec>>

UdpArrives(c) ==
    /\ cl[c].pc = "listen"
    /\ Len(udp[c]) < MaxUdpQueue
    /\ \E d \in ForeignDatagrams : udp' = [udp EXCEPT ![c] = Append(@, d)]
    /\ UNCHANGED <<serverVars, tcp, cl, rg, histVars, hands, top, codec>>

\* lines 110-112: the offer the listen loop returns on; off is what
\* unpack_offer returned or raised
OfferAcceptedAnyType(off) == ~IsException(off) /\ off[1] = MAGIC_COOKIE

OfferAccepted(off) ==
    ~IsException(off) /\ off[1] = MAGIC_COOKIE /\ off[2] = 2

\* lines 104-121: one pass of listen_to_offer's loop; on a valid offer,
\* lines 139-143
ClientRecvOffer(c) ==
    /\ cl[c].pc = "listen"
    /\ udp[c] # <<>>
    /\ LET d == Head(udp[c])
           off == unpack_offer(d.data)
       IN IF OfferAccepted(off)
          THEN /\ cl' = [cl EXCEPT ![c].pc = "connect",
                                   ![c].server_ip = d.addr,
                                   ![c].server_tcp_port = off[3],
                                   ![c].sock = FALSE,
                                   ![c].connected = FALSE,
                                   ![c].wins = 0,
                                   ![c].losses = 0,
                                   ![c].ties = 0,
                                   ![c].exc = NoException,
                                   ![c].played = 0,
                                   ![c].nsent = 0]
               /\ udp' = [udp EXCEPT ![c] = <<>>]
          ELSE /\ udp' = [udp EXCEPT ![c] = Tail(@)]
               /\ UNCHANGED cl
    /\ UNCHANGED <<serverVars, tcp, rg, histVars, hands, top, codec>>

\* lines 146-147: the server listens at ("server", SERVER_PORT); a connect
\* to any other endpoint is refused
ClientConnect(c) ==
    /\ cl[c].pc = "connect"
    /\ IF cl[c].server_ip = "server" /\ cl[c].server_tcp_port = SERVER_PORT
       THEN /\ tcp[c].state = "none"
            /\ tcp' = [tcp EXCEPT ![c] = NewConn]
            /\ cl' = [cl EXCEPT ![c].pc = "input", ![c].sock = TRUE,
                                ![c].connected = TRUE]
       ELSE /\ cl' = [cl EXCEPT ![c].pc = "finally", ![c].sock = TRUE,
                                ![c].exc = ConnectionError]
            /\ UNCHANGED tcp
    /\ UNCHANGED <<serverVars, udp, rg, histVars, hands, top, codec>>

\* the top of the for loop of line 160 with round_idx rounds done
ClientNextRound(st, round_idx) ==
    IF round_idx < st.rounds
    THEN [st EXCEPT !.pc = "initial", !.round_idx = round_idx, !.i = 0,
                    !.player_cards = <<>>, !.dealer_cards = <<>>,
                    !.player_ranks = <<>>, !.nsent = 0]
    ELSE [st EXCEPT !.pc = "finally", !.round_idx = round_idx]

\* the top of the while loop of line 184
ClientTurnHead(st) ==
    IF client_hand_total(st.player_ranks) > 21
    THEN [st EXCEPT !.pc = "dealer"]
    ELSE [st EXCEPT !.pc = "choose"]

ClientRaise(st, e) == [st EXCEPT !.pc = "finally", !.exc = e]

\* what a peer's sendall does to its connection: once the server has closed,
\* the bytes go nowhere and the call may raise
PeerSend(conn, msg) ==
    IF conn.sclosed \/ conn.state = "none" THEN conn
    ELSE [conn EXCEPT !.c2s = @ \o msg]
PeerSendOutcomes(conn) ==
    IF conn.sclosed \/ conn.state = "none" THEN {TRUE, FALSE} ELSE {TRUE}

\* lines 150-160: the round count is read and the Request sent
ClientRequest(c) ==
    /\ cl[c].pc = "input"
    /\ \E n \in RoundInputs :
       LET st == [cl[c] EXCEPT !.rounds = n, !.rounds_bound = TRUE]
           msg == pack_request(n, CLIENT_NAME)
       IN IF IsException(msg)
          THEN /\ cl' = [cl EXCEPT ![c] = ClientRaise(st, msg)]
               /\ UNCHANGED tcp
          ELSE \E ok \in PeerSendOutcomes(tcp[c]) :
               /\ tcp' = [tcp EXCEPT ![c] = PeerSend(@, msg)]
               /\ cl' = [cl EXCEPT ![c] =
                           IF ok THEN ClientNextRound(st, 0)
                           ELSE ClientRaise(st, BrokenPipeError)]
    /\ UNCHANGED <<serverVars, udp, rg, histVars, hands, top, codec>>

\* recv_exact on the client's side: lines 6-17
ClientRecvReady(conn) ==
    RecvReady(conn.s2c, conn.sclosed \/ conn.state = "none",
              SERVER_PAYLOAD_SIZE)
ClientRecvFails(conn) ==
    RecvFails(conn.s2c, conn.sclosed \/ conn.state = "none",
              SERVER_PAYLOAD_SIZE)

DealtToPlayerFirstOnly(i) == i < 1

\* line 172: the Payloads of the initial deal that carry the player's cards
DealtToPlayer(i) == i < 2

\* lines 166-178: one of the three Payloads of the initial deal
ClientInitial(c) ==
    /\ cl[c].pc = "initial"
    /\ ClientRecvReady(tcp[c])
    /\ IF ClientRecvFails(tcp[c])
       THEN /\ cl' = [cl EXCEPT ![c] = ClientRaise(@, ConnectionError)]
            /\ UNCHANGED tcp
       ELSE LET pl == unpack_server_payload(
                        Taken(tcp[c].s2c, SERVER_PAYLOAD_SIZE))
                st == cl[c]
                got == IF DealtToPlayer(st.i)
                       THEN [st EXCEPT
                               !.player_cards =
                                   Append(@, card_to_str(pl[4], pl[5])),
                               !.player_ranks =
                                   Append(@, client_rank_value(pl[4])),
                               !.i = @ + 1]
                       ELSE [st EXCEPT
                               !.dealer_cards =
                                   Append(@, card_to_str(pl[4], pl[5])),
                               !.i = @ + 1]
            IN /\ tcp' = [tcp EXCEPT ![c].s2c = Left(@, SERVER_PAYLOAD_SIZE)]
               /\ cl' = [cl EXCEPT ![c] =
                           IF pl[1] # MAGIC_COOKIE
                           THEN ClientRaise(st, ValueError)
                           ELSE IF got.i < 3 THEN got
                           ELSE ClientTurnHead(got)]
    /\ UNCHANGED <<serverVars, udp, rg, histVars, hands, top, codec>>

\* lines 189-201: a choice is typed; "H" and "S" send a decision
ClientChoose(c) ==
    /\ cl[c].pc = "choose"
    /\ \E choice \in ChoiceInputs :
       IF choice \notin {"H", "S"}
       THEN UNCHANGED <<cl, tcp>>
       ELSE LET decision == IF choice = "H" THEN Hittt ELSE Stand
                st == [cl[c] EXCEPT !.nsent = @ + 1]
            IN \E ok \in PeerSendOutcomes(tcp[c]) :
               /\ tcp' = [tcp EXCEPT ![c] =
                            PeerSend(@, pack_client_payload(decision))]
               /\ cl' = [cl EXCEPT ![c] =
                           IF ~ok THEN ClientRaise(cl[c], BrokenPipeError)
                           ELSE IF decision = Stand
                           THEN [st EXCEPT !.pc = "dealer"]
                           ELSE [st EXCEPT !.pc = "hit_recv"]]
    /\ UNCHANGED <<serverVars, udp, rg, histVars, hands, top, codec>>

\* lines 203-219: the card a Hit is answered with
ClientHitRecv(c) ==
    /\ cl[c].pc = "hit_recv"
    /\ ClientRecvReady(tcp[c])
    /\ IF ClientRecvFails(tcp[c])
       THEN /\ cl' = [cl EXCEPT ![c] = ClientRaise(@, ConnectionError)]
            /\ UNCHANGED tcp
       ELSE LET pl == unpack_server_payload(
                        Taken(tcp[c].s2c, SERVER_PAYLOAD_SIZE))
                st == cl[c]
                got == [st EXCEPT
                          !.player_cards =
                              Append(@, card_to_str(pl[4], pl[5])),
                          !.player_ranks =
                              Append(@, client_rank_value(pl[4]))]
            IN /\ tcp' = [tcp EXCEPT ![c].s2c = Left(@, SERVER_PAYLOAD_SIZE)]
               /\ cl' = [cl EXCEPT ![c] =
                           IF pl[1] # MAGIC_COOKIE
                           THEN ClientRaise(st, ValueError)
                           ELSE IF client_hand_total(got.player_ranks) > 21
                           THEN [got EXCEPT !.pc = "dealer"]
                           ELSE IF pl[3] # GAME_RESULT_NOTOVER
                           THEN [got EXCEPT !.pc = "dealer"]
                           ELSE ClientTurnHead(got)]
    /\ UNCHANGED <<serverVars, udp, rg, histVars, hands, top, codec>>

ClientTallySkippingLoss(st, game_result) ==
    [st EXCEPT
       !.wins = IF game_result = GAME_RESULT_WIN THEN @ + 1 ELSE @,
       !.ties = IF game_result = GAME_RESULT_TIE THEN @ + 1 ELSE @]

\* lines 234-239: the result is counted
ClientTally(st, game_result) ==
    [st EXCEPT
       !.wins = IF game_result = GAME_RESULT_WIN THEN @ + 1 ELSE @,
       !.losses = IF game_result = GAME_RESULT_LOSS THEN @ + 1 ELSE @,
       !.ties = IF game_result = GAME_RESULT_TIE THEN @ + 1 ELSE @]

\* lines 222-242: a dealer card, or the round's result
ClientDealer(c) ==
    /\ cl[c].pc = "dealer"
    /\ ClientRecvReady(tcp[c])
    /\ IF ClientRecvFails(tcp[c])
       THEN /\ cl' = [cl EXCEPT ![c] = ClientRaise(@, ConnectionError)]
            /\ UNCHANGED <<tcp, hands>>
       ELSE LET pl == unpack_server_payload(
                        Taken(tcp[c].s2c, SERVER_PAYLOAD_SIZE))
                st == cl[c]
                tallied == [ClientTally(st, pl[3]) EXCEPT !.played = @ + 1]
            IN /\ tcp' = [tcp EXCEPT ![c].s2c = Left(@, SERVER_PAYLOAD_SIZE)]
               /\ cl' = [cl EXCEPT ![c] =
                           IF pl[1] # MAGIC_COOKIE
                           THEN ClientRaise(st, ValueError)
                           ELSE IF pl[3] = GAME_RESULT_NOTOVER
                           THEN [st EXCEPT !.dealer_cards =
                                    Append(@, card_to_str(pl[4], pl[5]))]
                           ELSE ClientNextRound(tallied, st.round_idx + 1)]
               /\ hands' = IF pl[1] = MAGIC_COOKIE
                               /\ pl[3] # GAME_RESULT_NOTOVER
                               /\ hands[c] # <<>>
                            THEN [hands EXCEPT ![c] = Tail(@)]
                            ELSE hands
    /\ UNCHANGED <<serverVars, udp, rg, histVars, top, codec>>

\* a client process once an attempt is over: of its locals only rounds is
\* read again before it is reassigned
ClientAfter(st, pc, e) ==
    [ClientInit EXCEPT !.pc = pc, !.exc = e, !.rounds = st.rounds,
                       !.rounds_bound = st.rounds_bound]

\* lines 250-256: the socket is closed and the summary printed; the
\* division of line 254 raises when rounds is 0 or was never bound, and
\* nothing catches it
ClientFinally(c) ==
    /\ cl[c].pc = "finally"
    /\ tcp' = [tcp EXCEPT ![c] =
                 IF cl[c].sock /\ cl[c].connected THEN PeerClose(@) ELSE @]
    /\ cl' = [cl EXCEPT ![c] =
                IF ~cl[c].rounds_bound
                THEN ClientAfter(@, "crashed", UnboundLocalError)
                ELSE IF cl[c].rounds = 0
                THEN ClientAfter(@, "crashed", ZeroDivisionError)
                ELSE ClientAfter(@, "start", NoException)]
    /\ hands' = [hands EXCEPT ![c] = <<>>]
    /\ UNCHANGED <<serverVars, udp, rg, histVars, top, codec>>

(***************************************************************************)
(* Rogue peers: TCP peers that follow no protocol                          *)
(***************************************************************************)
\* A rogue peer connects, sends up to MaxRogueSends of these byte strings
\* and closes when it likes.  It sends once its connection is accepted:
\* the server reads a connection's bytes in order whenever they were sent.
BadCookie == PackI(<<0, 0>>)
Hello == <<72, 101, 108, 108, 111>>
RogueMessages ==
    {pack_request(1, CLIENT_NAME),
     BadCookie \o PackB(MTYPE_REQUEST) \o PackB(1) \o pack_name(CLIENT_NAME),
     pack_client_payload(Hittt),
     pack_client_payload(Stand),
     BadCookie \o PackB(MTYPE_PAYLOAD) \o Stand,
     PackI(MAGIC_COOKIE) \o PackB(MTYPE_PAYLOAD) \o Hello,
     PackI(MAGIC_COOKIE) \o PackB(MTYPE_PAYLOAD) \o <<200, 116, 97, 110, 100>>,
     <<171, 205, 220>>}

RogueConnect(p) ==
    /\ tcp[p].state = "none"
    /\ tcp' = [tcp EXCEPT ![p] = NewConn]
    /\ rg' = [rg EXCEPT ![p] = 0]
    /\ UNCHANGED <<serverVars, udp, cl, histVars, hands, top, codec>>

RogueSend(p) ==
    /\ tcp[p].state = "open"
    /\ ~tcp[p].cclosed
    /\ rg[p] < MaxRogueSends
    /\ \E m \in RogueMessages : tcp' = [tcp EXCEPT ![p] = PeerSend(@, m)]
    /\ rg' = [rg EXCEPT ![p] = @ + 1]
    /\ UNCHANGED <<serverVars, udp, cl, histVars, hands, top, codec>>

RogueClose(p) ==
    /\ tcp[p].state # "none"
    /\ ~tcp[p].cclosed
    /\ tcp' = [tcp EXCEPT ![p] = PeerClose(@)]
    /\ rg' = [rg EXCEPT ![p] = 0]
    /\ UNCHANGED <<serverVars, udp, cl, histVars, hands, top, codec>>

(***************************************************************************)
(* The system: one server, the clients and the rogue peers                 *)
(***************************************************************************)
NoCodec ==
    [kind |-> "none", stage |-> "none", input |-> <<>>, bytes |-> <<>>,
     output |-> <<>>]

\* the state once the server has bound its sockets and the clients started
Start ==
    /\ spc = "advertise"
    /\ client_sock = None
    /\ rounds = 0
    /\ r = 0
    /\ deck = <<>>
    /\ player_hand = <<>>
    /\ dealer_hand = <<>>
    /\ dealer_hidden = NoCard
    /\ player_busted = FALSE
    /\ dealer_busted = FALSE
    /\ s_exc = NoException
    /\ match = "idle"
    /\ open_socks = {}
    /\ tcp = [p \in Peers |-> NoConn]
    /\ udp = [c \in Clients |-> <<>>]
    /\ cl = [c \in Clients |-> ClientInit]
    /\ rg = [p \in Rogues |-> 0]
    /\ sent = <<>>
    /\ decisions = <<>>
    /\ results = 0
    /\ adverts = 0
    /\ hands = [c \in Clients |-> <<>>]

Init == Start /\ top \in Tops /\ codec = NoCodec

Server ==
    \/ Advertise
    \/ \E p \in Peers : Accept(p)
    \/ AcceptTimeout
    \/ RecvRequest
    \/ Round
    \/ PlayerTurn
    \/ DealerReveal
    \/ DealerLoop
    \/ EndRound
    \/ Finally
    \/ Sleep

Client(c) ==
    \/ ClientStart(c)
    \/ UdpArrives(c)
    \/ ClientRecvOffer(c)
    \/ ClientConnect(c)
    \/ ClientRequest(c)
    \/ ClientInitial(c)
    \/ ClientChoose(c)
    \/ ClientHitRecv(c)
    \/ ClientDealer(c)
    \/ ClientFinally(c)

Rogue(p) ==
    \/ RogueConnect(p)
    \/ RogueSend(p)
    \/ RogueClose(p)

\* the server and the clients
Next ==
    \/ Server
    \/ \E c \in Clients : Client(c)

Spec == Init /\ [][Next]_vars

\* the server, the clients and the rogue peers, under fewer shuffles
\* the server process keeps running: a step it can take is taken (its
\* sleeps and accept waits end after one second, its sends return).  The
\* shuffle is the one that leaves create_deck's order.
InitLive == Start /\ top = {} /\ codec = NoCodec

SpecLive == InitLive /\ [][Next]_vars /\ WF_vars(Server)

\* the same server process under shuffles that let the player hit without
\* busting and leave the dealer below 17 after the reveal
FairTops == {TopWindow(9, TopCards - 2)}

InitFair == Start /\ top \in FairTops /\ codec = NoCodec

SpecFair == InitFair /\ [][Next]_vars /\ WF_vars(Server)

InitPeers == Start /\ top \in FewTops /\ codec = NoCodec

NextPeers ==
    \/ Server
    \/ \E c \in Clients : Client(c)
    \/ \E p \in Rogues : Rogue(p)

SpecPeers == InitPeers /\ [][NextPeers]_vars

(***************************************************************************)
(* The codec on its own: every encoder applied to inputs inside and        *)
(* outside its fields' ranges, and the decoder applied to what it returns  *)
(***************************************************************************)
Fill(n) == [i \in 1..n |-> 66]

CodecNames ==
    {Fill(n) \o t : n \in {0, NAME_LEN - 2, NAME_LEN - 1, NAME_LEN},
                    t \in {<<>>, <<65>>, <<233>>, <<0>>, <<65, 0, 66>>}}

CodecInputs ==
    {[kind |-> "offer", input |-> <<port, name>>] :
        port \in {0, 255, 256, SERVER_PORT, 65535, 65536},
        name \in CodecNames}
    \cup {[kind |-> "request", input |-> <<n, name>>] :
            n \in {-1, 0, 1, 255, 256}, name \in CodecNames}
    \cup {[kind |-> "client_payload", input |-> <<d>>] :
            d \in {Hittt, Stand, Hello, <<72, 105, 116>>}}
    \cup {[kind |-> "server_payload", input |-> <<res, rank, suit>>] :
            res \in {0, 1, 2, 3, 255}, rank \in {0, 1, 13, 256, 65535},
            suit \in {0, 3, 255}}

Pack(kind, input) ==
    CASE kind = "offer" -> pack_offer(input[1], input[2])
      [] kind = "request" -> pack_request(input[1], input[2])
      [] kind = "client_payload" -> pack_client_payload(input[1])
      [] kind = "server_payload" ->
            pack_server_payload(input[1], input[2], input[3])

Unpack(kind, data) ==
    CASE kind = "offer" -> unpack_offer(data)
      [] kind = "request" -> unpack_request(data)
      [] kind = "client_payload" -> unpack_client_payload(data)
      [] kind = "server_payload" -> unpack_server_payload(data)

InitCodec ==
    /\ Start
    /\ top \in FewTops
    /\ \E x \in CodecInputs :
          codec = [kind |-> x.kind, stage |-> "input", input |-> x.input,
                   bytes |-> <<>>, output |-> <<>>]

CodecPack ==
    /\ codec.stage = "input"
    /\ codec' = [codec EXCEPT !.stage = "packed",
                              !.bytes = Pack(codec.kind, codec.input)]
    /\ UNCHANGED <<serverVars, tcp, udp, cl, rg, histVars, hands, top>>

CodecUnpack ==
    /\ codec.stage = "packed"
    /\ ~IsException(codec.bytes)
    /\ codec' = [codec EXCEPT !.stage = "unpacked",
                              !.output = Unpack(codec.kind, codec.bytes)]
    /\ UNCHANGED <<serverVars, tcp, udp, cl, rg, histVars, hands, top>>

NextCodec == CodecPack \/ CodecUnpack

SpecCodec == InitCodec /\ [][NextCodec]_vars

(***************************************************************************)
(* Properties                                                              *)
(***************************************************************************)
Last(q) == q[Len(q)]
Range(q) == {q[i] : i \in 1..Len(q)}

\* the Payloads of the current round, decoded
SentPayloads == [i \in 1..Len(sent) |-> unpack_server_payload(sent[i])]
Outcome(pl) == pl[3]
CardOf(pl) == <<pl[4], pl[5]>>
NotOver(card) ==
    <<MAGIC_COOKIE, MTYPE_PAYLOAD, GAME_RESULT_NOTOVER, card[1], card[2]>>
Result(outcome) == <<MAGIC_COOKIE, MTYPE_PAYLOAD, outcome, 0, 0>>

\* the server has finished a round and not begun the next
RoundFinished == spc = "round" /\ r > 0

Busted(hand) == hand_total(hand) > 21

InitialBust ==
    Len(player_hand) >= 2 /\ Busted(SubSeq(player_hand, 1, 2))
ClientInitialBust(c) ==
    /\ Len(cl[c].player_ranks) >= 2
    /\ cl[c].player_ranks[1] + cl[c].player_ranks[2] > 21

\* C2: in a round whose first two player cards total more than 21 the server
\* never enters PlayerTurn or DealerTurn, reads no decision, never sends the
\* hidden card, and sends exactly the three initial NOTOVER Payloads and then
\* the result LOSS; the client sends no decision in such a round.
C2_InitialBust ==
    /\ InitialBust =>
        /\ spc \notin {"player_turn", "dealer_turn", "dealer_loop"}
        /\ decisions = <<>>
        /\ CardPayload(dealer_hidden) \notin Range(sent)
        /\ LET initial == <<NotOver(player_hand[1]), NotOver(player_hand[2]),
                            NotOver(dealer_hand[1])>>
           IN IF spc = "end_round" THEN SentPayloads = initial
              ELSE SentPayloads = initial \o <<Result(GAME_RESULT_LOSS)>>
    /\ \A c \in Clients :
        ClientInitialBust(c) =>
            cl[c].nsent = 0 /\ cl[c].pc \notin {"choose", "hit_recv"}

C2_Witness ==
    /\ InitialBust
    /\ RoundFinished
    /\ \E c \in Clients :
        ClientInitialBust(c) /\ cl[c].pc = "finally" /\ cl[c].played = 1

\* a step of the dealer's loop
DealerStep == spc = "dealer_loop" /\ <<spc, dealer_hand>>' # <<spc, dealer_hand>>

\* C3: in the dealer's loop the dealer draws one card if and only if the
\* dealer's total is below 17, stops not busted at 17..21 and stops busted
\* above 21; so the dealer's turn ends with a total of at least 17.
C3_DealerRule ==
    /\ [](spc = "end_round" /\ Len(dealer_hand) >= 2
            => hand_total(dealer_hand) >= 17)
    /\ [][DealerStep =>
            IF hand_total(dealer_hand) <= 16
            THEN /\ spc' = "dealer_loop"
                 /\ \E card \in Range(deck) :
                        dealer_hand' = Append(dealer_hand, card)
            ELSE /\ spc' = "end_round"
                 /\ dealer_hand' = dealer_hand
                 /\ dealer_busted' = (hand_total(dealer_hand) > 21)]_vars

C3_Witness ==
    /\ spc = "end_round"
    /\ Len(dealer_hand) = 3
    /\ hand_total(SubSeq(dealer_hand, 1, 2)) = 16
    /\ rank_value(dealer_hand[3][1]) = 5

StandRead ==
    /\ decisions # <<>>
    /\ unpack_client_payload(Last(decisions)) =
           <<MAGIC_COOKIE, MTYPE_PAYLOAD, Stand>>

HiddenSent == dealer_hidden # NoCard /\ CardPayload(dealer_hidden) \in Range(sent)

\* C4: the Payload carrying the dealer's hidden card is sent only after the
\* server has read a "Stand" decision, and never in a round where the player
\* is busted.
C4_HiddenCard ==
    /\ HiddenSent => StandRead
    /\ Busted(player_hand) => ~HiddenSent

C4_Witness == HiddenSent /\ spc = "dealer_loop"

\* the round whose Payloads sent holds is complete
RoundComplete ==
    r > 0 /\ (spc = "round" \/ (spc = "finally" /\ match = "complete"))

\* C5: a completed round's Payloads end with exactly one result Payload,
\* with an outcome in {TIE, LOSS, WIN}, rank 0 and suit 0; every other
\* Payload of a round has outcome NOTOVER and a card of rank 1..13, suit 0..3.
C5_Payloads ==
    \A i \in 1..Len(sent) :
        LET pl == SentPayloads[i]
        IN IF RoundComplete /\ i = Len(sent)
           THEN /\ Outcome(pl) \in
                     {GAME_RESULT_TIE, GAME_RESULT_LOSS, GAME_RESULT_WIN}
                /\ CardOf(pl) = <<0, 0>>
           ELSE /\ Outcome(pl) = GAME_RESULT_NOTOVER
                /\ pl[4] \in 1..13
                /\ pl[5] \in 0..3

C5_Witness == RoundComplete /\ Len(sent) >= 6

\* C6's deal and decisions: player (10,clubs), (9,diamonds), dealer upcard
\* (7,hearts), hidden card (6,spades), the next card popped (5,clubs), one
\* round asked for, "Stand" the only decision
C6_Scenario ==
    /\ spc = "finally"
    /\ match = "complete"
    /\ rounds = 1
    /\ player_hand = << <<10, 0>>, <<9, 1>> >>
    /\ dealer_hand[1] = <<7, 2>>
    /\ dealer_hidden = <<6, 3>>
    /\ Len(dealer_hand) >= 3 => dealer_hand[3] = <<5, 0>>
    /\ decisions = <<pack_client_payload(Stand)>>

\* C6: in that scenario the server's Payloads are, in order, NOTOVER for
\* (10,clubs), (9,diamonds), (7,hearts), then NOTOVER for (6,spades) and
\* (5,clubs), then the result WIN with rank 0 and suit 0, and the match is
\* complete after one result.
C6_EndToEnd ==
    C6_Scenario =>
        /\ SentPayloads =
             <<NotOver(<<10, 0>>), NotOver(<<9, 1>>), NotOver(<<7, 2>>),
               NotOver(<<6, 3>>), NotOver(<<5, 0>>),
               <<MAGIC_COOKIE, MTYPE_PAYLOAD, 3, 0, 0>> >>
        /\ results = 1

C6_Witness ==
    C6_Scenario /\ Len(dealer_hand) = 3 /\ Len(sent) = 6 /\ results = 1

\* C7: a match that run_match_for_client plays to its end has sent exactly
\* as many result Payloads as the Request asked rounds for (the count the
\* client put in it); the server's next step closes the connection.
C7_RoundCount ==
    /\ [](spc = "finally" /\ match = "complete" =>
            /\ results = rounds
            /\ r = rounds
            /\ client_sock \in Clients => rounds = cl[client_sock].rounds)
    /\ [](spc = "sleep" => client_sock \notin open_socks)
    /\ [][spc = "finally" /\ spc' # spc =>
            spc' = "sleep" /\ open_socks' = open_socks \ {client_sock}]_vars

C7_Witness ==
    spc = "finally" /\ match = "complete" /\ rounds = 2 /\ results = 2

\* C8: a fatal error in a match (the peer closing mid-read, a wrong magic
\* marker, an unrecognized decision) ends that match only: the server loop
\* stays alive, closes that one connection, leaves every other connection as
\* it is, and goes back to advertising.
C8_FaultContained ==
    /\ [](spc # "crashed")
    /\ [](match = "aborted" => spc \in {"finally", "sleep"})
    /\ [](spc = "sleep" => client_sock \notin open_socks)
    /\ [][spc = "finally" /\ spc' # spc =>
            /\ spc' = "sleep"
            /\ tcp'[client_sock] = ServerClose(tcp[client_sock])
            /\ \A q \in Peers \ {client_sock} : tcp'[q] = tcp[q]]_vars
    /\ [][spc = "sleep" /\ spc' # spc => spc' = "advertise"]_vars

C8_Witness ==
    /\ spc = "finally"
    /\ match = "aborted"
    /\ s_exc = ConnectionError
    /\ Len(player_hand) >= 2

\* C9: at every moment at most one accepted connection is open, and a
\* connection is accepted only when the server holds no open connection.
C9_OneMatch ==
    /\ [](Cardinality(open_socks) <= 1)
    /\ [](Cardinality({p \in Peers : tcp[p].state = "open" /\ ~tcp[p].sclosed})
             <= 1)
    /\ [][\A p \in Peers :
            p \in open_socks' /\ p \notin open_socks => open_socks = {}]_vars

C9_Witness ==
    \E p, q \in Peers :
        /\ p # q
        /\ p \in open_socks
        /\ spc \in {"player_turn", "dealer_loop"}
        /\ tcp[q].state = "backlog"

ValidName(name) ==
    LET b == Utf8Encode(name)
    IN Len(b) <= NAME_LEN /\ \A i \in 1..Len(b) : b[i] # 0

ValidInput(kind, input) ==
    CASE kind = "offer" -> input[1] \in 0..65535 /\ ValidName(input[2])
      [] kind = "request" -> input[1] \in 0..255 /\ ValidName(input[2])
      [] kind = "client_payload" -> input[1] \in {Hittt, Stand}
      [] kind = "server_payload" ->
            input[1] \in 0..255 /\ input[2] \in 0..65535 /\ input[3] \in 0..255
      [] OTHER -> FALSE

TypeTag(kind) ==
    CASE kind = "offer" -> 2
      [] kind = "request" -> 3
      [] kind = "client_payload" -> 4
      [] kind = "server_payload" -> 4

\* C10: for valid field values (a name of at most 32 bytes with no zero
\* byte, a port 0..65535, a round count 0..255, one of the two decision
\* tokens, result, rank and suit within their widths) each decoder applied
\* to its encoder's bytes returns the magic marker, the kind's type tag
\* (2, 3, 4, 4) and the original field values.
C10_RoundTrip ==
    (codec.stage \in {"packed", "unpacked"}
        /\ ValidInput(codec.kind, codec.input)) =>
        /\ ~IsException(codec.bytes)
        /\ codec.stage = "unpacked" =>
             codec.output =
                <<MAGIC_COOKIE, TypeTag(codec.kind)>> \o codec.input

C10_Witness ==
    /\ codec.stage = "unpacked"
    /\ codec.kind = "offer"
    /\ codec.input[1] = SERVER_PORT
    /\ Len(codec.input[2]) < NAME_LEN
    /\ Len(Utf8Encode(codec.input[2])) = NAME_LEN
    /\ codec.output[4] = codec.input[2]

\* the encoder has been applied to the codec input
Packed == codec.stage \in {"packed", "unpacked"}

\* C11: pack_request raises ValueError and returns no bytes for every round
\* count outside 0..255 and returns the 38 bytes of a Request for every count
\* inside; pack_client_payload raises ValueError and returns no bytes for
\* every token other than "Hittt" and "Stand" and returns the 10 bytes of a
\* decision for those two.
C11_EncodeRejects ==
    /\ (Packed /\ codec.kind = "request") =>
          IF codec.input[1] \in 0..255
          THEN ~IsException(codec.bytes) /\ Len(codec.bytes) = REQUEST_SIZE
          ELSE codec.bytes = ValueError
    /\ (Packed /\ codec.kind = "client_payload") =>
          IF codec.input[1] \in {Hittt, Stand}
          THEN /\ ~IsException(codec.bytes)
               /\ Len(codec.bytes) = CLIENT_PAYLOAD_SIZE
          ELSE codec.bytes = ValueError

C11_Witness ==
    /\ codec.stage = "packed"
    /\ \/ codec.kind = "request" /\ codec.input[1] = 256
       \/ codec.kind = "client_payload" /\ codec.input[1] = Hello
    /\ codec.bytes = ValueError

\* the rule table: the points of ranks 1..13
CardValue == <<11, 2, 3, 4, 5, 6, 7, 8, 9, 10, 10, 10, 10>>

RECURSIVE TableTotal(_)
TableTotal(hand) ==
    IF hand = <<>> THEN 0
    ELSE CardValue[Head(hand)[1]] + TableTotal(Tail(hand))

\* C12: rank_value maps rank 1 to 11, ranks 11, 12, 13 to 10 and each rank
\* 2..10 to itself; the total the server computes for either hand is always
\* the sum of these values over the cards in the hand, an Ace counting 11 in
\* every hand, and the busted flags the outcome is decided from are those
\* totals compared with 21.
C12_Scoring ==
    /\ \A rank \in 1..13 : rank_value(rank) = CardValue[rank]
    /\ hand_total(player_hand) = TableTotal(player_hand)
    /\ hand_total(dealer_hand) = TableTotal(dealer_hand)
    /\ spc = "end_round" =>
          /\ player_busted = (TableTotal(player_hand) > 21)
          /\ dealer_busted =
                (~player_busted /\ TableTotal(dealer_hand) > 21)

C12_Witness ==
    /\ spc = "end_round"
    /\ {1, 12} \subseteq {player_hand[i][1] : i \in 1..Len(player_hand)}
    /\ hand_total(player_hand) >= 21

\* a round's cards are dealt (hands stay as they are until the next deal)
InRound == Len(player_hand) >= 2

\* every card the round holds: the deck, the hands, and the hidden card
\* while it is not yet in the dealer's hand
RoundCards ==
    deck \o player_hand \o dealer_hand
        \o (IF Len(dealer_hand) = 1 THEN <<dealer_hidden>> ELSE <<>>)

\* a step inside a round that changes the deck
DrawStep ==
    /\ spc \in {"player_turn", "dealer_turn", "dealer_loop", "end_round"}
    /\ spc' # "finally"
    /\ deck' # deck

\* C13: create_deck yields the 52 distinct rank x suit cards; at every point
\* of a round the deck, the player hand, the dealer hand and the unrevealed
\* hidden card are pairwise disjoint and together hold exactly those 52
\* cards; a draw removes exactly one card from the deck.
C13_DeckInvariant ==
    /\ [](/\ Len(create_deck) = 52
          /\ Range(create_deck) = (1..13) \X (0..3))
    /\ [](InRound =>
            /\ Len(RoundCards) = 52
            /\ Range(RoundCards) = Range(create_deck)
            /\ Len(deck) <= 48)
    /\ [][DrawStep =>
            \E i \in 1..Len(deck) :
                /\ deck' = SubSeq(deck, 1, i - 1) \o SubSeq(deck, i + 1, Len(deck))
                /\ \/ player_hand' = Append(player_hand, deck[i])
                   \/ dealer_hand' = Append(dealer_hand, deck[i])]_vars

C13_Witness ==
    /\ InRound
    /\ spc = "end_round"
    /\ Len(player_hand) >= 3
    /\ Len(dealer_hand) >= 3
    /\ Len(deck) <= 46

\* a well-formed Advertisement, byte by byte: 39 bytes, the magic marker
\* AB CD DC BA, the type tag 2
ValidAdvert(data) ==
    /\ Len(data) = 39
    /\ SubSeq(data, 1, 4) = <<171, 205, 220, 186>>
    /\ data[5] = 2

\* client c takes a datagram off its discovery socket
OfferRecvStep(c) ==
    /\ cl[c].pc = "listen"
    /\ cl'[c] # cl[c] \/ Len(udp'[c]) < Len(udp[c])

\* C14: the client's listen loop drops a datagram that is malformed, has a
\* wrong magic marker or a type tag other than 2 and goes on listening; on a
\* valid Advertisement it stops listening and connects to the datagram's
\* sender address and the port embedded in it; the Advertisements this
\* server sends embed the port it listens on, so that connect reaches it.
C14_Discovery ==
    /\ [][\A c \in Clients :
            OfferRecvStep(c) =>
                LET d == Head(udp[c])
                IN IF ValidAdvert(d.data)
                   THEN /\ cl'[c].pc = "connect"
                        /\ cl'[c].server_ip = d.addr
                        /\ cl'[c].server_tcp_port =
                               256 * d.data[6] + d.data[7]
                   ELSE cl'[c] = cl[c]]_vars
    /\ [](\A c \in Clients :
            \A i \in 1..Len(udp[c]) :
                udp[c][i].addr = "server" =>
                    /\ ValidAdvert(udp[c][i].data)
                    /\ 256 * udp[c][i].data[6] + udp[c][i].data[7]
                           = SERVER_PORT)
    /\ [][\A c \in Clients :
            (cl[c].pc = "connect" /\ cl'[c] # cl[c]) =>
                IF cl[c].server_ip = "server"
                THEN /\ cl[c].server_tcp_port = SERVER_PORT
                     /\ tcp'[c].state = "backlog"
                     /\ cl'[c].connected
                ELSE /\ tcp'[c] = tcp[c]
                     /\ ~cl'[c].connected]_vars

C14_Witness ==
    \E c \in Clients :
        /\ cl[c].pc = "input"
        /\ cl[c].connected
        /\ cl[c].server_ip = "server"
        /\ cl[c].server_tcp_port = SERVER_PORT
        /\ tcp[c].state = "backlog"

\* client c has played every round it asked for with no error raised and is
\* about to run its finally block
ClientMatchDone(c) ==
    /\ cl[c].pc = "finally"
    /\ cl[c].exc = NoException
    /\ cl[c].connected
    /\ cl[c].rounds_bound
    /\ cl[c].rounds \in 0..255
    /\ cl[c].played = cl[c].rounds

\* C15: for every round count 0..255, 0 included, a client whose match met
\* no error closes its socket and returns to listening for Advertisements;
\* no unhandled exception ends the client.
C15_ClientCompletes ==
    [][\A c \in Clients :
          (ClientMatchDone(c) /\ cl'[c] # cl[c]) =>
              /\ cl'[c].pc = "start"
              /\ cl'[c].exc = NoException
              /\ tcp'[c] = PeerClose(tcp[c])]_vars

\* the client after a zero-round match: line 254 has raised
C15_Witness ==
    \E c \in Clients :
        /\ cl[c].pc = "crashed"
        /\ cl[c].exc = ZeroDivisionError
        /\ cl[c].rounds = 0
        /\ spc = "finally" /\ match = "complete" /\ rounds = 0

\* client c's attempt has ended in an exception caught at line 246 and the
\* client is about to run its finally block
ClientAttemptFailed(c) == cl[c].pc = "finally" /\ cl[c].exc # NoException

\* C16: when a client's attempt ends in a fatal error (the connect is
\* refused, a Payload has a wrong magic marker, the connection is closed
\* mid-read) the client closes its socket if it is open and returns to
\* listening; the client does not terminate, in its first attempt or later.
C16_ClientRecovers ==
    [][\A c \in Clients :
          (ClientAttemptFailed(c) /\ cl'[c] # cl[c]) =>
              /\ cl'[c].pc = "start"
              /\ tcp'[c] = IF cl[c].connected THEN PeerClose(tcp[c])
                           ELSE tcp[c]]_vars

\* the client after its first connect was refused: rounds was never bound
\* and line 254 has raised
C16_Witness ==
    \E c \in Clients :
        /\ cl[c].pc = "crashed"
        /\ cl[c].exc = UnboundLocalError
        /\ ~cl[c].rounds_bound

\* a pass of player_turn's loop
PlayerStep ==
    /\ spc = "player_turn"
    /\ <<spc, player_hand, deck, sent, decisions>>'
          # <<spc, player_hand, deck, sent, decisions>>

\* the decision token in the 10 bytes the pass has read
TokenRead(data) == SubSeq(data, 6, 10)

\* C17: a pass of player_turn ends the turn as busted exactly when the
\* player's total is over 21, without reading a decision; at 21 or less it
\* reads one decision: on "Hittt" it moves one card from the deck to the end
\* of the player hand, sends one NOTOVER Payload for it and stays in the
\* turn (the match aborting instead if that send fails); on "Stand" it draws
\* and sends nothing and ends the turn as not busted.
C17_PlayerTurn ==
    /\ [][PlayerStep =>
            IF hand_total(player_hand) > 21
            THEN /\ spc' = "end_round"
                 /\ player_busted'
                 /\ UNCHANGED <<player_hand, deck, sent, decisions>>
            ELSE /\ Len(decisions') = Len(decisions) + 1
                 /\ LET data == Last(decisions')
                    IN IF match' = "aborted"
                       THEN UNCHANGED <<player_hand, deck, sent>>
                       ELSE IF TokenRead(data) = Hittt
                       THEN /\ spc' = "player_turn"
                            /\ \E i \in 1..Len(deck) :
                                 /\ deck' = SubSeq(deck, 1, i - 1)
                                       \o SubSeq(deck, i + 1, Len(deck))
                                 /\ player_hand' = Append(player_hand, deck[i])
                                 /\ sent' = Append(sent,
                                      pack_server_payload(GAME_RESULT_NOTOVER,
                                                          deck[i][1], deck[i][2]))
                       ELSE /\ TokenRead(data) = Stand
                            /\ spc' = "dealer_turn"
                            /\ ~player_busted'
                            /\ UNCHANGED <<player_hand, deck, sent>>]_vars
    /\ [](spc \in {"dealer_turn", "dealer_loop"} =>
            hand_total(player_hand) <= 21 /\ StandRead)

\* the player has been dealt 21, has asked for a card and got it
C17_Witness ==
    /\ spc = "player_turn"
    /\ Len(player_hand) = 3
    /\ hand_total(SubSeq(player_hand, 1, 2)) = 21
    /\ Len(decisions) = 1
    /\ Len(sent) = 4

\* the last decision the server read has a wrong magic marker or a token
\* that is neither "Hittt" nor "Stand"
BadDecisionRead ==
    /\ decisions # <<>>
    /\ \/ SubSeq(Last(decisions), 1, 4) # <<171, 205, 220, 186>>
       \/ TokenRead(Last(decisions)) \notin {Hittt, Stand}

\* C18: on reading a decision with a wrong magic marker or an unknown token
\* the server raises out of the match: the step that reads it draws no
\* card and sends nothing, the match is aborted with its current round and
\* the rounds after it unplayed, and the server's next step closes the
\* connection, so no Payload follows that message.
C18_BadDecision ==
    /\ [](BadDecisionRead =>
            /\ spc = "finally"
            /\ match = "aborted"
            /\ s_exc \in {ValueError, UnicodeError}
            /\ results = r
            /\ r < rounds)
    /\ [][(spc = "player_turn" /\ BadDecisionRead'
                /\ Len(decisions') > Len(decisions)) =>
            /\ UNCHANGED <<deck, player_hand, dealer_hand, sent, results, r>>
            /\ tcp'[client_sock].s2c = tcp[client_sock].s2c]_vars
    /\ [][(BadDecisionRead /\ spc' # spc) =>
            /\ spc' = "sleep"
            /\ tcp'[client_sock] = ServerClose(tcp[client_sock])
            /\ client_sock \notin open_socks']_vars

C18_Witness ==
    /\ BadDecisionRead
    /\ spc = "finally"
    /\ TokenRead(Last(decisions)) = Hello
    /\ Len(player_hand) = 2
    /\ Len(sent) = 3
    /\ results < rounds

\* the server is about to read a whole Request whose magic marker is wrong
BadRequestAhead ==
    /\ spc = "recv_request"
    /\ Len(tcp[client_sock].c2s) >= REQUEST_SIZE
    /\ SubSeq(tcp[client_sock].c2s, 1, 4) # <<171, 205, 220, 186>>

\* no round has been started on the connection
NoRoundStarted ==
    /\ deck = <<>>
    /\ player_hand = <<>>
    /\ dealer_hand = <<>>
    /\ sent = <<>>
    /\ results = 0
    /\ tcp[client_sock].s2c = <<>>

\* C19: a Request with a wrong magic marker starts no round: the server
\* builds no deck and sends no Payload on the connection, its next step
\* closes the connection, and the step after that returns to advertising.
C19_BadRequest ==
    /\ [][(BadRequestAhead /\ spc' # spc) =>
            /\ spc' = "finally"
            /\ match' # "running"
            /\ NoRoundStarted']_vars
    /\ [](match = "dropped" =>
            /\ spc \in {"finally", "sleep"}
            /\ NoRoundStarted
            /\ spc = "sleep" => client_sock \notin open_socks)
    /\ [][(match = "dropped" /\ spc' # spc) =>
            IF spc = "finally"
            THEN /\ spc' = "sleep"
                 /\ tcp'[client_sock] = ServerClose(tcp[client_sock])
            ELSE spc' = "advertise"]_vars

C19_Witness ==
    /\ match = "dropped"
    /\ spc = "sleep"
    /\ client_sock \in Rogues
    /\ client_sock \notin open_socks

\* connections the server has accepted and not closed
AcceptedOpen == {p \in Peers : tcp[p].state = "open" /\ ~tcp[p].sclosed}

\* the server sends an Advertisement
AdvertSent == adverts' > adverts

\* C20: from the accept of a connection to its close the server sends no
\* Advertisement: while an accepted connection is open the server is not in
\* its advertising loop and has sent no Advertisement since the accept, and
\* every Advertisement is sent with no accepted connection open.
C20_AdvertisingSuspended ==
    /\ [](AcceptedOpen # {} =>
            /\ spc \notin {"advertise", "accept"}
            /\ adverts = 0)
    /\ [](AcceptedOpen = open_socks)
    /\ [][AdvertSent => AcceptedOpen = {} /\ spc = "advertise"]_vars
    /\ [][\A c \in Clients :
            (Len(udp'[c]) > Len(udp[c]) /\ Last(udp'[c]).addr = "server")
                => AcceptedOpen = {}]_vars

\* the server has closed a connection, which its peer still holds, and has
\* advertised again
C20_Witness ==
    /\ adverts = 1
    /\ spc = "accept"
    /\ open_socks = {}
    /\ \E p \in Peers : tcp[p].state = "open" /\ tcp[p].sclosed

\* no peer is connected or waiting to be accepted
NoPeer == open_socks = {} /\ \A p \in Peers : tcp[p].state # "backlog"

\* C21: an accept wait that times out is followed by an Advertisement and
\* another accept wait, and every accept wait follows exactly one
\* Advertisement; so a server that no client connects to any more sends
\* Advertisements infinitely often and waits for a connection infinitely
\* often.
C21_IdleAdvertising ==
    /\ [](spc = "accept" => adverts = 1)
    /\ [](spc = "advertise" => adverts = 0)
    /\ [][(spc = "accept" /\ spc' # spc /\ open_socks' = open_socks) =>
            spc' = "advertise" /\ adverts' = 0]_vars
    /\ [][(spc = "advertise" /\ spc' # spc) =>
            spc' = "accept" /\ adverts' = 1]_vars
    /\ (<>[]NoPeer) =>
          ([]<>(spc = "advertise") /\ []<>(spc = "accept" /\ adverts = 1))

\* the server has advertised again after an accept wait that timed out
\* while the client was still listening
C21_Witness ==
    /\ spc = "accept"
    /\ adverts = 1
    /\ NoPeer
    /\ \E c \in Clients :
          cl[c].pc = "listen" /\ udp[c] # <<>> /\ Head(udp[c]).addr = "other"

\* how many cards of create_deck are worth v points
CardsWorth(v) ==
    Cardinality({i \in 1..Len(create_deck) :
                    rank_value(create_deck[i][1]) = v})

\* the largest number of cards of one deck whose values total at most
\* limit: the cheapest cards first, from value v up
RECURSIVE MaxCardsWithin(_, _)
MaxCardsWithin(v, limit) ==
    IF v > 11 \/ limit < v THEN 0
    ELSE LET n == IF CardsWorth(v) * v <= limit THEN CardsWorth(v)
                  ELSE limit \div v
         IN n + (IF n = CardsWorth(v) THEN MaxCardsWithin(v + 1, limit - n * v)
                 ELSE 0)

\* the most cards a turn can put in the player's and in the dealer's hand:
\* cards totalling at most 21 (at most 16) and one more
MaxPlayerCards == MaxCardsWithin(1, 21) + 1
MaxDealerCards == MaxCardsWithin(1, 16) + 1

AllButLast(hand) == SubSeq(hand, 1, Len(hand) - 1)

\* a step of the server that takes cards off the deck
PopStep == spc \in {"player_turn", "dealer_loop"} /\ Len(deck') < Len(deck)

\* C22: no draw finds the deck empty.  The player is dealt a card only while
\* the cards before it total at most 21 and the dealer only while they
\* total at most 16, so whatever the shuffle the player holds at most 9
\* cards and the dealer at most 7 of the 52; the deck is never empty when a
\* card is popped and deck.pop() never raises.
C22_DeckNeverEmpty ==
    /\ [](/\ MaxPlayerCards = 9
          /\ MaxDealerCards = 7
          /\ MaxPlayerCards + MaxDealerCards < Len(create_deck))
    /\ [](InRound =>
            /\ hand_total(AllButLast(player_hand)) <= 21
            /\ Len(player_hand) <= MaxPlayerCards
            /\ Len(dealer_hand) > 2 =>
                  hand_total(AllButLast(dealer_hand)) <= 16
            /\ Len(dealer_hand) <= MaxDealerCards
            /\ Len(deck) >= 52 - MaxPlayerCards - MaxDealerCards)
    /\ [](s_exc # IndexError)
    /\ [][PopStep => deck # <<>>]_vars

C22_Witness ==
    /\ spc = "end_round"
    /\ Len(player_hand) >= 4
    /\ Len(deck) <= 46

\* the Payloads a byte stream holds, as their 9 bytes each
RECURSIVE Chunks(_)
Chunks(stream) ==
    IF Len(stream) < SERVER_PAYLOAD_SIZE THEN <<>>
    ELSE <<SubSeq(stream, 1, SERVER_PAYLOAD_SIZE)>>
            \o Chunks(SubSeq(stream, SERVER_PAYLOAD_SIZE + 1, Len(stream)))

\* the result Payloads sent to client c that it has not read yet
ResultsInFlight(c) ==
    Cardinality({i \in 1..Len(Chunks(tcp[c].s2c)) :
                    Chunks(tcp[c].s2c)[i][6] # GAME_RESULT_NOTOVER})

\* the server is in a match with client c and c has not ended its attempt
\* (the counters of both are live)
InMatchWith(c) ==
    /\ client_sock = c
    /\ cl[c].connected
    /\ match \in {"running", "complete"}
    /\ spc \notin {"sleep", "advertise", "accept"}

ServerBlocked ==
    /\ client_sock # None
    /\ ~tcp[client_sock].cclosed
    /\ \/ /\ spc = "recv_request"
          /\ Len(tcp[client_sock].c2s) < REQUEST_SIZE
       \/ /\ spc = "player_turn"
          /\ hand_total(player_hand) <= 21
          /\ Len(tcp[client_sock].c2s) < CLIENT_PAYLOAD_SIZE

\* client c waits in recv_exact for bytes the server has not sent
ClientBlocked(c) ==
    /\ cl[c].pc \in {"initial", "hit_recv", "dealer"}
    /\ tcp[c].state = "open"
    /\ ~tcp[c].sclosed
    /\ Len(tcp[c].s2c) < SERVER_PAYLOAD_SIZE

\* nothing is in flight between the server and client c
Quiet(c) == tcp[c].c2s = <<>> /\ tcp[c].s2c = <<>>

\* client c is between rounds: it has read a round's result, or the Request
\* is sent and no Payload read yet, or its last round is over
ClientAtBoundary(c) ==
    \/ cl[c].pc = "initial" /\ cl[c].i = 0
    \/ cl[c].pc = "finally" /\ cl[c].exc = NoException

\* the Payloads sent to client c that it has not read
Unread(c) == Chunks(tcp[c].s2c)

\* the Payloads of ch that follow its last result Payload
AfterLastResult(ch) ==
    LET res == {i \in 1..Len(ch) : ch[i][6] # GAME_RESULT_NOTOVER}
        last == IF res = {} THEN 0
                ELSE CHOOSE i \in res : \A j \in res : j <= i
    IN SubSeq(ch, last + 1, Len(ch))

\* the server is between rounds
ServerAtBoundary ==
    spc = "round" \/ (spc = "finally" /\ match = "complete")

\* C24: in a match with no connection fault the server and the client are
\* never both waiting to receive from the other; with nothing in flight,
\* the server waits for a decision exactly when the client is asking for
\* one, both holding the same total of at most 21, and the client has left
\* its turn when the server is about to end it as busted; once the server
\* has ended the turn the client sends and asks for no decision in that
\* round; when the server is between rounds no decision is unread, and when
\* the client is between rounds the Payloads unread are whole, are those of
\* rounds the client has not begun (one result for each round the server
\* has finished since) and end with those of the server's current round.
C24_LockStep ==
    \A c \in Clients :
        InMatchWith(c) =>
            /\ ~(ServerBlocked /\ ClientBlocked(c))
            /\ (Quiet(c) /\ spc = "player_turn") =>
                 /\ client_hand_total(cl[c].player_ranks)
                        = hand_total(player_hand)
                 /\ cl[c].pc = IF hand_total(player_hand) <= 21
                               THEN "choose" ELSE "dealer"
            /\ spc \in {"dealer_turn", "dealer_loop"} =>
                 /\ tcp[c].c2s = <<>>
                 /\ cl[c].pc = "dealer"
            /\ spc = "end_round" =>
                 /\ tcp[c].c2s = <<>>
                 /\ cl[c].pc \in {"initial", "hit_recv", "dealer"}
            /\ ServerAtBoundary => tcp[c].c2s = <<>>
            /\ ClientAtBoundary(c) =>
                 /\ Len(tcp[c].s2c) = SERVER_PAYLOAD_SIZE * Len(Unread(c))
                 /\ ResultsInFlight(c) = results - cl[c].played
                 /\ AfterLastResult(Unread(c)) =
                        IF ServerAtBoundary THEN <<>> ELSE sent

\* both sides are between rounds one and two with nothing in flight
C24_Witness ==
    \E c \in Clients :
        /\ InMatchWith(c)
        /\ ServerAtBoundary
        /\ ClientAtBoundary(c)
        /\ Quiet(c)
        /\ cl[c].played = 1
        /\ results = 1
        /\ rounds = 2


\* the server waits for the player's decision
DecisionAwaited ==
    /\ match = "running"
    /\ spc = "player_turn"
    /\ ~PlayerBusted(hand_total(player_hand))

\* a valid decision of the client's is there for the server to read
DecisionArrived ==
    /\ DecisionAwaited
    /\ LET conn == tcp[client_sock]
       IN /\ Len(conn.c2s) >= CLIENT_PAYLOAD_SIZE
          /\ Taken(conn.c2s, CLIENT_PAYLOAD_SIZE)
                \in {pack_client_payload(Hittt), pack_client_payload(Stand)}

\* a Hit of the player's, a draw of the dealer's
PlayerDraw == spc = "player_turn" /\ player_hand' # player_hand
DealerDraw == spc = "dealer_loop" /\ dealer_hand' # dealer_hand

\* C25: every card is worth at least 2, so a Hit, made at a total of 21 or
\* less, raises the player's total and a total over 21 ends the player's
\* turn at the next pass without a decision; a dealer draw, made at a total
\* of 16 or less, raises the dealer's total and a total of 17 or more ends
\* the dealer's turn at the next pass; so a turn has at most 9 (7) cards.
\* If a valid decision arrives whenever the server waits for one, a running
\* match of N rounds reaches MatchComplete, all N rounds played.
C25_Terminates ==
    /\ [][PlayerDraw =>
            /\ hand_total(player_hand) <= 21
            /\ hand_total(player_hand') >= hand_total(player_hand) + 2]_vars
    /\ [][DealerDraw =>
            /\ hand_total(dealer_hand) <= 16
            /\ hand_total(dealer_hand') >= hand_total(dealer_hand) + 2]_vars
    /\ [][(spc = "player_turn" /\ hand_total(player_hand) > 21 /\ spc' # spc)
            => spc' = "end_round" /\ decisions' = decisions]_vars
    /\ [][(spc = "dealer_loop" /\ hand_total(dealer_hand) >= 17 /\ spc' # spc)
            => spc' = "end_round" /\ dealer_hand' = dealer_hand]_vars
    /\ [](InRound =>
            /\ Len(player_hand) <= MaxPlayerCards
            /\ Len(dealer_hand) <= MaxDealerCards)
    /\ (DecisionAwaited ~> DecisionArrived) =>
          (match = "running" ~> (match = "complete" /\ r = rounds))

\* a match of MaxRounds rounds is complete after a Hit and a dealer draw in
\* its last round
C25_Witness ==
    /\ match = "complete"
    /\ rounds = MaxRounds
    /\ r = rounds
    /\ results = rounds
    /\ Len(player_hand) = 3
    /\ Len(dealer_hand) = 3


\* the client reads the result of a round
RoundRead(c) == cl[c].played' = cl[c].played + 1

\* the cards of a hand as the client prints them
CardNames(hand) == [k \in 1..Len(hand) |-> card_to_str(hand[k][1], hand[k][2])]

\* no two cards of the deck are printed alike
CardNamesDistinct ==
    \A a, b \in Range(create_deck) :
        card_to_str(a[1], a[2]) = card_to_str(b[1], b[2]) => a = b

\* C26: card_to_str tells the 52 cards apart; when the client reads a
\* round's result, whether or not the server has gone on to a later round,
\* the cards it attributed to the player are, in order, the player hand the
\* server held when it sent that result, the cards it attributed to the
\* dealer are, in order, that dealer hand (the upcard alone if the player
\* busted, the upcard, the hidden card and the draws otherwise), and the
\* total it computes for the player is the server's.
C26_ClientView ==
    /\ [](CardNamesDistinct)
    /\ [][\A c \in Clients :
            RoundRead(c) =>
               /\ hands[c] # <<>>
               /\ LET p_hand == Head(hands[c])[1]
                      d_hand == Head(hands[c])[2]
                  IN /\ cl[c].player_cards = CardNames(p_hand)
                     /\ cl[c].dealer_cards = CardNames(d_hand)
                     /\ client_hand_total(cl[c].player_ranks)
                           = hand_total(p_hand)
                     /\ IF hand_total(p_hand) > 21
                        THEN Len(d_hand) = 1
                        ELSE Len(d_hand) >= 2]_vars

\* the client, three cards in either hand, is about to read the result of a
\* round while the server waits for a decision in the next round
C26_Witness ==
    \E c \in Clients :
        /\ InMatchWith(c)
        /\ cl[c].pc = "dealer"
        /\ Len(hands[c]) = 1
        /\ Unread(c) # <<>>
        /\ Head(Unread(c))[6] # GAME_RESULT_NOTOVER
        /\ Len(cl[c].player_cards) = 3
        /\ Len(cl[c].dealer_cards) = 3
        /\ cl[c].player_cards = CardNames(Head(hands[c])[1])
        /\ spc = "player_turn"
        /\ results = cl[c].played + 1

=============================================================================
